---- MODULE Spec2Model ----
(***************************************************************************)
(* Model of shipcat's file-backed manifest resolution:                     *)
(*   - the Merge algebra over ManifestDefaults / ManifestOverrides,        *)
(*   - the layer fold (merge_source, merge_overrides),                     *)
(*   - the validating builder (ManifestSource::build).                     *)
(* An Option<T> is a sequence of length 0 (None) or 1 (Some(v)).           *)
(* A BTreeMap is a function whose domain is the set of keys present.       *)
(***************************************************************************)
EXTENDS Integers, Sequences, FiniteSets, TLC

VARIABLES pc, a, b, c, merged, left, right,
          global, regional, manifest, envfile, source,
          conf, region, result,
          files, again,
          svc, baseDecls, overDecls, kong, api,
          status, call, patch, clock, rolled, failed, shown,
          cluster, loginRegion, force, tshOut, needsLogin, cmds, outcome

\* the file system read by build_configs, and the second enrichment
fileVars == <<files, again>>

\* the gateway derivation
kongVars == <<svc, baseDecls, overDecls, kong, api>>

\* the stored status of the shipcatmanifest and the last update sent
statusVars == <<status, call, patch, clock, rolled, failed, shown>>

\* one run of login
loginVars == <<cluster, loginRegion, force, tshOut, needsLogin, cmds, outcome>>

vars == <<pc, a, b, c, merged, left, right,
          global, regional, manifest, envfile, source,
          conf, region, result,
          fileVars, kongVars, statusVars, loginVars>>

\* ------------------------------------------------------------------------
\* Bounds
\* ------------------------------------------------------------------------
\* replica_count ranges over 1..MaxReplicas
MaxReplicas == 1
\* longest team directory in the global config
MaxTeams == 2

\* ------------------------------------------------------------------------
\* Option<T>
\* ------------------------------------------------------------------------
None == <<>>

Some(v) == <<v>>

IsSome(o) == o # None

Option(S) == {None} \cup {Some(v) : v \in S}

\* BTreeMap<K, V> with keys drawn from K and values from V
Maps(K, V) == UNION {[D -> V] : D \in SUBSET K}

EmptyMap == [k \in {} |-> None]

\* ------------------------------------------------------------------------
\* Merge algebra
\* ------------------------------------------------------------------------
\* a plausible slip: the base wins when both sides are set
MergeOptionBaseWins(self, other) == IF IsSome(self) THEN self ELSE other

\* a plausible slip: two set values cancel instead of the override winning
MergeOptionConflict(self, other) ==
    IF IsSome(self) /\ IsSome(other) THEN None
    ELSE IF IsSome(other) THEN other ELSE self

\* a plausible slip: the override replaces the base even where it is unset
MergeOptionOverrideOnly(self, other) == other

\* Option<T>::merge: the override if set, else the base
MergeOption(self, other) == IF IsSome(other) THEN other ELSE self

\* a plausible slip: keys found only in the override are not inserted
MergeMapKeepBaseKeys(self, other) ==
    [k \in DOMAIN self |-> IF k \in DOMAIN other THEN other[k] ELSE self[k]]

\* a plausible slip: on a key collision the base's value is kept
MergeMapBaseWins(self, other) ==
    [k \in (DOMAIN self) \cup (DOMAIN other) |->
        IF k \in DOMAIN self THEN self[k] ELSE other[k]]

\* BTreeMap<K,V>::merge (EnvVarsSource): extend the base with the override
MergeMap(self, other) ==
    [k \in (DOMAIN self) \cup (DOMAIN other) |->
        IF k \in DOMAIN other THEN other[k] ELSE self[k]]

\* KongSource: the per-service gateway attributes, merged field by field
MergeKongSource(self, other) ==
    [upstream_url |-> MergeOption(self.upstream_url, other.upstream_url)]

\* Enabled<KongSource>: tri-state switch (unspecified / enabled / disabled)
\* plus the item, merged field by field
MergeEnabled(self, other) ==
    [enabled |-> MergeOption(self.enabled, other.enabled),
     item    |-> MergeKongSource(self.item, other.item)]

\* #[derive(Merge)] on ManifestDefaults
MergeDefaults(self, other) ==
    [image_prefix  |-> MergeOption(self.image_prefix, other.image_prefix),
     chart         |-> MergeOption(self.chart, other.chart),
     replica_count |-> MergeOption(self.replica_count, other.replica_count),
     env           |-> MergeMap(self.env, other.env),
     kong          |-> MergeEnabled(self.kong, other.kong)]

\* #[derive(Merge)] on ManifestOverrides
MergeOverrides(self, other) ==
    [image         |-> MergeOption(self.image, other.image),
     version       |-> MergeOption(self.version, other.version),
     data_handling |-> MergeOption(self.data_handling, other.data_handling),
     secret_files  |-> MergeMap(self.secret_files, other.secret_files),
     configs       |-> MergeOption(self.configs, other.configs),
     kafka         |-> MergeOption(self.kafka, other.kafka),
     defaults     |-> MergeDefaults(self.defaults, other.defaults)]

\* a plausible slip: receiver and argument swapped, the defaults win
merge_sourceSwapped(self, other) ==
    [other EXCEPT !.overrides.defaults = MergeDefaults(other.overrides.defaults, self)]

\* ManifestDefaults::merge_source
merge_source(self, other) ==
    [other EXCEPT !.overrides.defaults = MergeDefaults(self, other.overrides.defaults)]

\* ManifestSource::merge_overrides
merge_overrides(self, other) ==
    [self EXCEPT !.overrides = MergeOverrides(self.overrides, other)]

\* ------------------------------------------------------------------------
\* Default values
\* ------------------------------------------------------------------------
DefaultKong == [enabled |-> None, item |-> [upstream_url |-> None]]

\* ManifestDefaults::default(): the all-unset layer
DefaultDefaults ==
    [image_prefix |-> None, chart |-> None, replica_count |-> None,
     env |-> EmptyMap, kong |-> DefaultKong]

DefaultOverrides ==
    [image |-> None, version |-> None, data_handling |-> None,
     secret_files |-> EmptyMap, configs |-> None, kafka |-> None,
     defaults |-> DefaultDefaults]

DefaultSource ==
    [name |-> None, metadata |-> None, overrides |-> DefaultOverrides]

DefaultConfig == [teams |-> <<>>]

NoResult == [ok |-> FALSE, err |-> "", field |-> "", manifest |-> None]

\* ------------------------------------------------------------------------
\* Input universes
\* ------------------------------------------------------------------------
Prefixes == {"alpha", "beta"}
Charts == {"default"}
Replicas == 1..MaxReplicas
EnvKeys == {"a", "b"}
EnvVals == {"x", "y"}
Upstreams == {"http://up"}

KongLayers(E, U) ==
    [enabled : E, item : [upstream_url : U]]

DefaultsLayers(P, C, R, E, K) ==
    [image_prefix : P, chart : C, replica_count : R, env : E, kong : K]

\* the layers of the pairwise merge check
PairLayers ==
    DefaultsLayers(Option(Prefixes), Option(Charts), Option(Replicas),
                   Maps(EnvKeys, EnvVals),
                   KongLayers(Option(BOOLEAN), Option(Upstreams)))

\* ------------------------------------------------------------------------
\* SpecMerge: merge of two ManifestDefaults layers (tests::merge)
\* ------------------------------------------------------------------------
NoAgain == [dataHandling |-> None, kafka |-> None]

EmptyStatus == [conditions |-> EmptyMap, summary |-> EmptyMap]

NoCall == [op |-> "", applier |-> "", err |-> "", reason |-> "",
           ureason |-> "", version |-> ""]

NoShown == [text |-> "", requested |-> "", successver |-> None]

NoRegion == [name |-> "", cluster |-> "", namespace |-> ""]

FilesIdle == files = EmptyMap /\ again = NoAgain

KongIdle ==
    /\ svc = "" /\ baseDecls = <<>> /\ overDecls = <<>>
    /\ kong = EmptyMap /\ api = <<>>

StatusIdle ==
    /\ status = EmptyStatus /\ call = NoCall /\ patch = EmptyStatus
    /\ clock = 0 /\ rolled = None /\ failed = None /\ shown = NoShown

LoginIdle ==
    /\ cluster = None /\ loginRegion = NoRegion /\ force = FALSE
    /\ tshOut = <<>> /\ needsLogin = FALSE /\ cmds = <<>> /\ outcome = ""

Idle ==
    /\ FilesIdle /\ KongIdle /\ StatusIdle /\ LoginIdle
    /\ c = DefaultDefaults /\ left = DefaultDefaults /\ right = DefaultDefaults
    /\ global = DefaultDefaults /\ regional = DefaultDefaults
    /\ manifest = DefaultSource /\ envfile = DefaultOverrides
    /\ source = DefaultSource
    /\ conf = DefaultConfig /\ region = "" /\ result = NoResult

InitMerge ==
    /\ pc = "start"
    /\ a \in PairLayers
    /\ b = DefaultDefaults
    /\ merged = DefaultDefaults
    /\ Idle

\* let merged = a.merge(b);
Merge ==
    /\ pc = "start"
    /\ \E other \in PairLayers :
         /\ b' = other
         /\ merged' = MergeDefaults(a, other)
    /\ pc' = "merged"
    /\ UNCHANGED <<a, c, left, right, global, regional, manifest, envfile,
                   source, conf, region, result>>
    /\ UNCHANGED <<fileVars, kongVars, statusVars, loginVars>>

NextMerge == Merge

SpecMerge == InitMerge /\ [][NextMerge]_vars

\* C2: after merged = a.merge(b), every plain optional field of merged is
\* b's value when b sets it and a's value otherwise (set in both: b wins).
C2_PlainFieldOverride ==
    pc = "merged" =>
        /\ merged.image_prefix =
             (IF IsSome(b.image_prefix) THEN b.image_prefix ELSE a.image_prefix)
        /\ merged.chart = (IF IsSome(b.chart) THEN b.chart ELSE a.chart)
        /\ merged.replica_count =
             (IF IsSome(b.replica_count) THEN b.replica_count ELSE a.replica_count)
        /\ (IsSome(a.image_prefix) /\ IsSome(b.image_prefix)
              => merged.image_prefix = b.image_prefix)

\* the case of tests::merge: both set with different values, one side only
C2_Witness ==
    /\ pc = "merged"
    /\ a.image_prefix = Some("alpha") /\ b.image_prefix = Some("beta")
    /\ merged.image_prefix = Some("beta")
    /\ a.chart = None /\ b.chart = Some("default")
    /\ a.replica_count = Some(1) /\ b.replica_count = None
    /\ merged.replica_count = Some(1)

\* C3: the merged env has exactly the keys of a and b together; a key of b
\* has b's value, a key of a alone keeps a's value.
C3_MapUnion ==
    pc = "merged" =>
        /\ DOMAIN merged.env = (DOMAIN a.env) \cup (DOMAIN b.env)
        /\ \A k \in DOMAIN b.env : merged.env[k] = b.env[k]
        /\ \A k \in (DOMAIN a.env) \ (DOMAIN b.env) : merged.env[k] = a.env[k]

\* a collision with different values next to a key found on one side only
C3_Witness ==
    /\ pc = "merged"
    /\ DOMAIN a.env = {"a", "b"} /\ DOMAIN b.env = {"b"}
    /\ a.env["b"] = "x" /\ b.env["b"] = "y"
    /\ merged.env["b"] = "y" /\ merged.env["a"] = a.env["a"]

\* C5: the all-unset layer is a left and a right identity of merge.
C5_MergeIdentity ==
    pc = "merged" =>
        /\ (b = DefaultDefaults => merged = a)
        /\ (a = DefaultDefaults => merged = b)

\* a layer with every field set, merged with the all-unset layer
C5_Witness ==
    /\ pc = "merged"
    /\ a = DefaultDefaults
    /\ IsSome(b.image_prefix) /\ IsSome(b.chart) /\ IsSome(b.replica_count)
    /\ DOMAIN b.env = EnvKeys /\ b.kong.enabled = Some(FALSE)
    /\ merged = b

\* ------------------------------------------------------------------------
\* SpecAssoc: merge of three ManifestDefaults layers in both groupings
\* ------------------------------------------------------------------------
\* the layers of the three-way check: plain field, mapping and kong switch
AssocLayers ==
    DefaultsLayers(Option(Prefixes), {None}, Option(Replicas),
                   Maps({"a"}, EnvVals) \cup Maps({"b"}, {"x"}),
                   KongLayers(Option(BOOLEAN), {None}))

InitAssoc ==
    /\ pc = "start"
    /\ a \in AssocLayers
    /\ b = DefaultDefaults
    /\ merged = DefaultDefaults
    /\ Idle

\* a.merge(b)
MergeAB ==
    /\ pc = "start"
    /\ \E other \in AssocLayers :
         /\ b' = other
         /\ merged' = MergeDefaults(a, other)
    /\ pc' = "ab"
    /\ UNCHANGED <<a, c, left, right, global, regional, manifest, envfile,
                   source, conf, region, result>>
    /\ UNCHANGED <<fileVars, kongVars, statusVars, loginVars>>

\* a.merge(b).merge(c) and a.merge(b.merge(c))
MergeC ==
    /\ pc = "ab"
    /\ \E other \in AssocLayers :
         /\ c' = other
         /\ left' = MergeDefaults(merged, other)
         /\ right' = MergeDefaults(a, MergeDefaults(b, other))
    /\ pc' = "abc"
    /\ UNCHANGED <<a, b, merged, global, regional, manifest, envfile,
                   source, conf, region, result>>
    /\ UNCHANGED <<fileVars, kongVars, statusVars, loginVars>>

NextAssoc == MergeAB \/ MergeC

SpecAssoc == InitAssoc /\ [][NextAssoc]_vars

\* C4: merge(merge(a,b),c) equals merge(a, merge(b,c)).
C4_MergeAssociative == pc = "abc" => left = right

\* three layers that all set the plain field, the mapping and the kong switch
C4_Witness ==
    /\ pc = "abc"
    /\ a.image_prefix = Some("alpha") /\ b.image_prefix = Some("beta")
    /\ c.image_prefix = Some("alpha")
    /\ a.kong.enabled = Some(TRUE) /\ b.kong.enabled = Some(FALSE)
    /\ c.kong.enabled = None
    /\ DOMAIN a.env = {"a"} /\ DOMAIN b.env = {"b"} /\ DOMAIN c.env = {"a"}
    /\ a.env["a"] # c.env["a"]
    /\ left = right /\ left.env = [k \in {"a", "b"} |-> IF k = "a" THEN c.env["a"] ELSE "x"]

\* ------------------------------------------------------------------------
\* SpecFold: global defaults -> regional defaults -> manifest.yml ->
\* override file, folded into one ManifestSource
\* ------------------------------------------------------------------------
Images == {"quay.io/acme/foo", "quay.io/acme/bar"}
Names == {"foo"}

\* the defaults of one layer of the fold
FoldLayers ==
    DefaultsLayers(Option(Prefixes), Option(Charts), Option(Replicas),
                   {EmptyMap}, {DefaultKong})

FoldOverrides ==
    [image : Option(Images), version : {None}, data_handling : {None},
     secret_files : {EmptyMap}, configs : {None}, kafka : {None},
     defaults : FoldLayers]

FoldSources ==
    [name : Option(Names), metadata : {None}, overrides : FoldOverrides]

InitFold ==
    /\ pc = "load"
    /\ global \in FoldLayers
    /\ regional \in FoldLayers
    /\ manifest \in {m \in FoldSources : IsSome(m.name)}
    /\ envfile \in FoldOverrides
    /\ source = DefaultSource
    /\ FilesIdle /\ KongIdle /\ StatusIdle /\ LoginIdle
    /\ a = DefaultDefaults /\ b = DefaultDefaults /\ c = DefaultDefaults
    /\ merged = DefaultDefaults
    /\ left = DefaultDefaults /\ right = DefaultDefaults
    /\ conf = DefaultConfig /\ region = "" /\ result = NoResult

\* the regional defaults are merged over the global defaults
FoldRegional ==
    /\ pc = "load"
    /\ merged' = MergeDefaults(global, regional)
    /\ pc' = "defaults"
    /\ UNCHANGED <<a, b, c, left, right, global, regional, manifest, envfile,
                   source, conf, region, result>>
    /\ UNCHANGED <<fileVars, kongVars, statusVars, loginVars>>

\* defaults.merge_source(manifest)
FoldSource ==
    /\ pc = "defaults"
    /\ source' = merge_source(merged, manifest)
    /\ pc' = "source"
    /\ UNCHANGED <<a, b, c, merged, left, right, global, regional, manifest,
                   envfile, conf, region, result>>
    /\ UNCHANGED <<fileVars, kongVars, statusVars, loginVars>>

\* source.merge_overrides(envfile)
FoldOverride ==
    /\ pc = "source"
    /\ source' = merge_overrides(source, envfile)
    /\ pc' = "folded"
    /\ UNCHANGED <<a, b, c, merged, left, right, global, regional, manifest,
                   envfile, conf, region, result>>
    /\ UNCHANGED <<fileVars, kongVars, statusVars, loginVars>>

NextFold == FoldRegional \/ FoldSource \/ FoldOverride

SpecFold == InitFold /\ [][NextFold]_vars

\* the value of the last layer of a sequence that is set, None if none is
RECURSIVE HighestSet(_)
HighestSet(layers) ==
    IF layers = <<>> THEN None
    ELSE IF IsSome(layers[Len(layers)]) THEN layers[Len(layers)]
    ELSE HighestSet(SubSeq(layers, 1, Len(layers) - 1))

\* C1: in the folded source every plain optional field has the value of the
\* highest-precedence layer that sets it, and is unset iff no layer sets it.
C1_FoldPrecedence ==
    pc = "folded" =>
        LET d == source.overrides.defaults
            md == manifest.overrides.defaults
            ed == envfile.defaults
        IN /\ d.image_prefix = HighestSet(<<global.image_prefix,
                  regional.image_prefix, md.image_prefix, ed.image_prefix>>)
           /\ d.replica_count = HighestSet(<<global.replica_count,
                  regional.replica_count, md.replica_count, ed.replica_count>>)
           /\ d.chart = HighestSet(<<global.chart, regional.chart, md.chart, ed.chart>>)
           /\ source.overrides.image =
                  HighestSet(<<manifest.overrides.image, envfile.image>>)
           /\ (d.image_prefix = None <=>
                 /\ global.image_prefix = None /\ regional.image_prefix = None
                 /\ md.image_prefix = None /\ ed.image_prefix = None)
           /\ (source.overrides.image = None <=>
                 manifest.overrides.image = None /\ envfile.image = None)
           /\ source.name = manifest.name

\* the manifest's value wins over both defaults while the override file is
\* silent, and a field only the regional defaults set falls through
C1_Witness ==
    /\ pc = "folded"
    /\ global.image_prefix = Some("alpha") /\ regional.image_prefix = Some("beta")
    /\ manifest.overrides.defaults.image_prefix = Some("alpha")
    /\ envfile.defaults.image_prefix = None
    /\ source.overrides.defaults.image_prefix = Some("alpha")
    /\ global.replica_count = None /\ regional.replica_count = Some(1)
    /\ manifest.overrides.defaults.replica_count = None
    /\ envfile.defaults.replica_count = None
    /\ source.overrides.defaults.replica_count = Some(1)
    /\ manifest.overrides.image # envfile.image /\ IsSome(envfile.image)
    /\ IsSome(manifest.overrides.image)
    /\ source.overrides.image = envfile.image

\* ------------------------------------------------------------------------
\* Validating builder
\* ------------------------------------------------------------------------
\* Result<T>: Ok carries the value, Err the message and the field it names
Ok(v) == [ok |-> TRUE, err |-> "", field |-> "", value |-> Some(v)]

Err(msg, f) == [ok |-> FALSE, err |-> msg, field |-> f, value |-> None]

Unwrap(r) == r.value[1]

\* Require::require: the value of a set option, else an error naming the field
require(o, f) == IF IsSome(o) THEN Ok(o[1]) ELSE Err("missing required field", f)

\* Build for Option<S>: an unset source builds to an unset value
BuildOption(o) == Ok(o)

\* a plausible slip: an unmatched team falls back to the first team
FindTeamOrFirst(teams, team) ==
    IF \E i \in 1..Len(teams) : teams[i].name = team
    THEN CHOOSE i \in 1..Len(teams) :
            /\ teams[i].name = team
            /\ \A j \in 1..(i - 1) : teams[j].name # team
    ELSE IF Len(teams) > 0 THEN 1 ELSE 0

\* conf.teams.iter().find(|t| t.name == md.team): index of the first match, 0 if none
FindTeam(teams, team) ==
    IF \E i \in 1..Len(teams) : teams[i].name = team
    THEN CHOOSE i \in 1..Len(teams) :
            /\ teams[i].name = team
            /\ \A j \in 1..(i - 1) : teams[j].name # team
    ELSE 0

\* a plausible slip: the team's contacts are copied without the is_none test
build_metadataTeamWins(self, config) ==
    LET r == require(self.metadata, "metadata") IN
    IF ~r.ok THEN r
    ELSE LET md == Unwrap(r)
             i == FindTeam(config.teams, md.team)
         IN IF i = 0
            THEN Err("The team name must match one of the team names in shipcat.conf", "")
            ELSE LET team == config.teams[i]
                 IN Ok([md EXCEPT !.support = team.support,
                                  !.notifications = team.notifications])

\* ManifestSource::build_metadata
build_metadata(self, config) ==
    LET r == require(self.metadata, "metadata") IN
    IF ~r.ok THEN r
    ELSE LET md == Unwrap(r)
             i == FindTeam(config.teams, md.team)
         IN IF i = 0
            THEN Err("The team name must match one of the team names in shipcat.conf", "")
            ELSE LET team == config.teams[i]
                     md1 == IF md.support = None
                            THEN [md EXCEPT !.support = team.support] ELSE md
                     md2 == IF md1.notifications = None
                            THEN [md1 EXCEPT !.notifications = team.notifications]
                            ELSE md1
                 IN Ok(md2)

\* a plausible slip: the metadata is built before the name is required
build_baseMetadataFirst(self, config) ==
    LET m == build_metadata(self, config) IN
    IF ~m.ok THEN m
    ELSE LET n == require(self.name, "name") IN
         IF ~n.ok THEN n
         ELSE Ok([name |-> Unwrap(n), metadata |-> Unwrap(m)])

\* ManifestSource::build_base
build_base(self, config) ==
    LET n == require(self.name, "name") IN
    IF ~n.ok THEN n
    ELSE LET m == build_metadata(self, config) IN
         IF ~m.ok THEN m
         ELSE Ok([name |-> Unwrap(n), metadata |-> Unwrap(m)])

\* ImageNameSource::build: the image name as written
BuildImageName(image) == Ok(image)

\* a plausible slip: the prefix is tried before the explicit image
build_imagePrefixFirst(self, service) ==
    IF IsSome(self.overrides.defaults.image_prefix)
    THEN Ok(self.overrides.defaults.image_prefix[1] \o "/" \o service)
    ELSE IF IsSome(self.overrides.image)
    THEN BuildImageName(self.overrides.image[1])
    ELSE Err("Image prefix is not defined", "")

\* ManifestSource::build_image
build_image(self, service) ==
    IF IsSome(self.overrides.image)
    THEN BuildImageName(self.overrides.image[1])
    ELSE IF IsSome(self.overrides.defaults.image_prefix)
    THEN Ok(self.overrides.defaults.image_prefix[1] \o "/" \o service)
    ELSE Err("Image prefix is not defined", "")

\* a plausible slip: the shared template is tried before the service's file
read_template_fileSharedFirst(service, tmpl) ==
    LET pth == "./services/" \o service \o "/" \o tmpl
        gpth == "./templates/" \o tmpl
    IN IF gpth \in DOMAIN files THEN Ok(files[gpth])
       ELSE IF pth \in DOMAIN files THEN Ok(files[pth])
       ELSE Err("Template " \o tmpl \o " does not exist in neither "
                \o pth \o " nor " \o gpth, "")

\* read_template_file: ./services/<svc>/<tmpl>, else ./templates/<tmpl>
read_template_file(service, tmpl) ==
    LET pth == "./services/" \o service \o "/" \o tmpl
        gpth == "./templates/" \o tmpl
    IN IF pth \in DOMAIN files THEN Ok(files[pth])
       ELSE IF gpth \in DOMAIN files THEN Ok(files[gpth])
       ELSE Err("Template " \o tmpl \o " does not exist in neither "
                \o pth \o " nor " \o gpth, "")

\* the loop of build_configs over configs.files[i..], stopping at the first error
RECURSIVE ReadConfigFiles(_, _, _)
ReadConfigFiles(fs, i, service) ==
    IF i > Len(fs) THEN Ok(fs)
    ELSE LET r == read_template_file(service, fs[i].name) IN
         IF ~r.ok THEN r
         ELSE ReadConfigFiles([fs EXCEPT ![i].value = Some(Unwrap(r))], i + 1, service)

\* ManifestSource::build_configs
build_configs(self, service) ==
    IF self.overrides.configs = None THEN Ok(None)
    ELSE LET configs == self.overrides.configs[1]
             r == ReadConfigFiles(configs.files, 1, service)
         IN IF ~r.ok THEN r
            ELSE Ok(Some([configs EXCEPT !.files = Unwrap(r)]))

\* DataHandling::implicits: a field without an encryption flag takes its store's
DataHandlingImplicits(dh) ==
    IF dh.fieldEncrypted = None
    THEN [dh EXCEPT !.fieldEncrypted = dh.encrypted]
    ELSE dh

\* Kafka::implicits: the topic defaults to the service, the brokers to the region's
KafkaImplicits(kf, service, reg) ==
    LET k1 == IF kf.topic = None THEN [kf EXCEPT !.topic = Some(service)] ELSE kf
    IN IF k1.brokers = None
       THEN [k1 EXCEPT !.brokers = Some("kafka." \o reg)]
       ELSE k1

\* a plausible slip: the substructure is cloned without the implicits call
build_data_handlingNoImplicits(self) == self.overrides.data_handling

\* ManifestSource::build_data_handling
build_data_handling(self) ==
    IF self.overrides.data_handling = None THEN None
    ELSE Some(DataHandlingImplicits(self.overrides.data_handling[1]))

\* ManifestSource::build_kafka
build_kafka(self, service, reg) ==
    IF self.overrides.kafka = None THEN None
    ELSE Some(KafkaImplicits(self.overrides.kafka[1], service, reg))

\* ManifestSource::build_simple
build_simple(self, config, reg) ==
    LET from_base(base) ==
          IF ~base.ok THEN base
          ELSE LET image == build_image(self, Unwrap(base).name) IN
               IF ~image.ok THEN image
               ELSE LET version == BuildOption(self.overrides.version) IN
                    IF ~version.ok THEN version
                    ELSE Ok([region  |-> reg,
                             image   |-> Some(Unwrap(image)),
                             version |-> Unwrap(version),
                             base    |-> Unwrap(base)])
    IN from_base(build_base(self, config))

\* ManifestSource::build
build(self, config, reg) ==
    LET from_simple(simple) ==
          IF ~simple.ok THEN simple
          ELSE LET s == Unwrap(simple)
                   name == s.base.name
                   data_handling == build_data_handling(self)
                   kafka_ == build_kafka(self, name, reg)
                   configs == build_configs(self, name)
                   defaults == self.overrides.defaults
               IN IF ~configs.ok THEN configs
                  ELSE Ok([name         |-> name,
                           metadata     |-> Some(s.base.metadata),
                           chart        |-> defaults.chart,
                           image        |-> s.image,
                           version      |-> s.version,
                           dataHandling |-> data_handling,
                           replicaCount |-> defaults.replica_count,
                           env          |-> defaults.env,
                           secretFiles  |-> self.overrides.secret_files,
                           configs      |-> Unwrap(configs),
                           kafka        |-> kafka_,
                           region       |-> reg])
    IN from_simple(build_simple(self, config, reg))

\* ------------------------------------------------------------------------
\* SpecBuild: build of one merged source against a config and a region
\* ------------------------------------------------------------------------
TeamNames == {"devops", "platform"}
MetadataTeams == TeamNames \cup {"Devops"}
Contacts == {"#md-support"}
TeamContacts == {"#team-support"}
Channels == {"#md-notify"}
TeamChannels == {"#team-notify"}
Versions == {"1.0.0"}
RegionNames == {"dev-uk"}

Team == [name : TeamNames, support : Option(TeamContacts),
         notifications : Option(TeamChannels)]

Metadata == [team : MetadataTeams, support : Option(Contacts),
             notifications : Option(Channels)]

TeamDirectories == UNION {[1..n -> Team] : n \in 0..MaxTeams}

BuildSources ==
    [name : Option(Names), metadata : Option(Metadata),
     overrides : [image : Option({"quay.io/acme/foo"}),
                  version : Option(Versions),
                  data_handling : {None},
                  secret_files : {EmptyMap},
                  configs : {None},
                  kafka : {None},
                  defaults : DefaultsLayers(Option({"acme"}), {None}, {None},
                                            {EmptyMap}, {DefaultKong})]]

InitBuild ==
    /\ pc = "source"
    /\ source \in BuildSources
    /\ conf \in [teams : TeamDirectories]
    /\ region \in RegionNames
    /\ result = NoResult
    /\ FilesIdle /\ KongIdle /\ StatusIdle /\ LoginIdle
    /\ a = DefaultDefaults /\ b = DefaultDefaults /\ c = DefaultDefaults
    /\ merged = DefaultDefaults
    /\ left = DefaultDefaults /\ right = DefaultDefaults
    /\ global = DefaultDefaults /\ regional = DefaultDefaults
    /\ manifest = DefaultSource /\ envfile = DefaultOverrides

\* source.build(&(conf, region))
Build ==
    /\ pc = "source"
    /\ \E r \in {build(source, conf, region)} :
         result' = [ok |-> r.ok, err |-> r.err, field |-> r.field,
                    manifest |-> r.value]
    /\ pc' = "built"
    /\ UNCHANGED <<a, b, c, merged, left, right, global, regional, manifest,
                   envfile, source, conf, region>>
    /\ UNCHANGED <<fileVars, kongVars, statusVars, loginVars>>

\* the implicit-fill step applied once more to the built substructures
Reapply ==
    /\ pc = "built"
    /\ result.ok
    /\ LET mf == result.manifest[1] IN
         again' = [dataHandling |->
                      IF mf.dataHandling = None THEN None
                      ELSE Some(DataHandlingImplicits(mf.dataHandling[1])),
                   kafka |->
                      IF mf.kafka = None THEN None
                      ELSE Some(KafkaImplicits(mf.kafka[1], mf.name, region))]
    /\ pc' = "reapplied"
    /\ UNCHANGED <<a, b, c, merged, left, right, global, regional, manifest,
                   envfile, source, conf, region, result, files>>
    /\ UNCHANGED <<kongVars, statusVars, loginVars>>

NextBuild == Build

SpecBuild == InitBuild /\ [][NextBuild]_vars

\* the metadata's team is the name of an entry of the team directory
TeamMatches ==
    /\ IsSome(source.metadata)
    /\ \E i \in 1..Len(conf.teams) : conf.teams[i].name = source.metadata[1].team

\* C6: every Manifest that build returns has name, metadata, image and
\* version set; build fails when one of them is missing from the source.
C6_RequiredFieldsSet ==
    (pc = "built" /\ result.ok) =>
        /\ IsSome(result.manifest)
        /\ IsSome(result.manifest[1].metadata)
        /\ IsSome(result.manifest[1].image)
        /\ IsSome(result.manifest[1].version)

\* C7: a source without a name fails with an error naming `name` and
\* returns no Manifest; a source with a name never fails on `name`.
C7_NameRequired ==
    pc = "built" =>
        /\ (source.name = None =>
              /\ ~result.ok
              /\ result.field = "name"
              /\ result.manifest = None)
        /\ (IsSome(source.name) => result.field # "name")

\* no name and no metadata either: the error is still the one about name
C7_Witness ==
    /\ pc = "built"
    /\ source.name = None /\ source.metadata = None
    /\ source.overrides.image = None
    /\ ~result.ok /\ result.field = "name" /\ result.manifest = None

\* C8: the explicit image if set, else "<prefix>/<service>", else the
\* error "Image prefix is not defined".
C8_ImageResolution ==
    (pc = "built" /\ IsSome(source.name) /\ TeamMatches) =>
        LET o == source.overrides IN
        IF IsSome(o.image)
        THEN result.ok /\ result.manifest[1].image = o.image
        ELSE IF IsSome(o.defaults.image_prefix)
        THEN /\ result.ok
             /\ result.manifest[1].image =
                   Some(o.defaults.image_prefix[1] \o "/" \o source.name[1])
        ELSE /\ ~result.ok
             /\ result.err = "Image prefix is not defined"
             /\ result.manifest = None

\* prefix acme and service foo, no explicit image
C8_Witness ==
    /\ pc = "built"
    /\ source.name = Some("foo")
    /\ source.overrides.image = None
    /\ source.overrides.defaults.image_prefix = Some("acme")
    /\ result.ok
    /\ result.manifest[1].image = Some("acme/foo")

\* C9: an unset support contact or notification target is taken from the
\* matched team, a set one is kept, and an unset team default leaves the
\* field unset.
C9_TeamInheritance ==
    (pc = "built" /\ result.ok) =>
        LET md == source.metadata[1]
            team == conf.teams[FindTeam(conf.teams, md.team)]
            out == result.manifest[1].metadata[1]
        IN /\ out.team = md.team
           /\ out.support = (IF IsSome(md.support) THEN md.support ELSE team.support)
           /\ out.notifications =
                (IF IsSome(md.notifications) THEN md.notifications
                 ELSE team.notifications)
           /\ (md.support = None /\ team.support = None => out.support = None)

\* support inherited from the team, notifications kept although the team
\* has its own
C9_Witness ==
    /\ pc = "built" /\ result.ok
    /\ source.metadata[1].support = None
    /\ source.metadata[1].notifications = Some("#md-notify")
    /\ Len(conf.teams) = 1
    /\ conf.teams[1].support = Some("#team-support")
    /\ conf.teams[1].notifications = Some("#team-notify")
    /\ result.manifest[1].metadata[1].support = Some("#team-support")
    /\ result.manifest[1].metadata[1].notifications = Some("#md-notify")

\* C10: metadata whose team is not the exact name of a team of the config
\* makes build fail; no Manifest is returned.
C10_UnknownTeamFails ==
    (pc = "built" /\ IsSome(source.metadata) /\ ~TeamMatches) =>
        /\ ~result.ok
        /\ result.manifest = None

\* the team differs from a directory entry by case only
C10_Witness ==
    /\ pc = "built"
    /\ IsSome(source.name) /\ IsSome(source.metadata)
    /\ source.metadata[1].team = "Devops"
    /\ Len(conf.teams) = 2 /\ conf.teams[1].name = "devops"
    /\ IsSome(source.overrides.image) /\ IsSome(source.overrides.version)
    /\ ~result.ok
    /\ result.err = "The team name must match one of the team names in shipcat.conf"

\* ------------------------------------------------------------------------
\* SpecFiles: build of a source with data handling, kafka and config files
\* against a file system
\* ------------------------------------------------------------------------
\* most entries of one configs.files list
MaxConfigFiles == 2

ConfigFileNames == {"config.ini", "env.yml"}

DataHandlings == [encrypted : Option(BOOLEAN), fieldEncrypted : Option(BOOLEAN)]

Kafkas == [topic : Option({"events"}), brokers : Option({"kafka.shared"})]

ConfigFiles == [name : ConfigFileNames, value : {None}]

ConfigMaps == [files : UNION {[1..n -> ConfigFiles] : n \in 0..MaxConfigFiles}]

\* every path build_configs can look at, with the content found there
TemplatePaths ==
    {"./services/foo/" \o f : f \in ConfigFileNames}
        \cup {"./templates/" \o f : f \in ConfigFileNames}

FileContent(path) == "content of " \o path

FileSystems == {[p \in D |-> FileContent(p)] : D \in SUBSET TemplatePaths}

FilesSources ==
    [name : {Some("foo")},
     metadata : {Some([team |-> "devops", support |-> None, notifications |-> None])},
     overrides : [image : {Some("quay.io/acme/foo")},
                  version : {Some("1.0.0")},
                  data_handling : Option(DataHandlings),
                  secret_files : {EmptyMap},
                  configs : Option(ConfigMaps),
                  kafka : Option(Kafkas),
                  defaults : {DefaultDefaults}]]

InitFiles ==
    /\ pc = "source"
    /\ source \in FilesSources
    /\ conf = [teams |-> <<[name |-> "devops", support |-> None,
                            notifications |-> None]>>]
    /\ region \in RegionNames
    /\ files \in FileSystems
    /\ again = NoAgain
    /\ result = NoResult
    /\ KongIdle /\ StatusIdle /\ LoginIdle
    /\ a = DefaultDefaults /\ b = DefaultDefaults /\ c = DefaultDefaults
    /\ merged = DefaultDefaults
    /\ left = DefaultDefaults /\ right = DefaultDefaults
    /\ global = DefaultDefaults /\ regional = DefaultDefaults
    /\ manifest = DefaultSource /\ envfile = DefaultOverrides

NextFiles == Build \/ Reapply

SpecFiles == InitFiles /\ [][NextFiles]_vars

ServicePath(tmpl) == "./services/" \o source.name[1] \o "/" \o tmpl

SharedPath(tmpl) == "./templates/" \o tmpl

Resolvable(tmpl) ==
    ServicePath(tmpl) \in DOMAIN files \/ SharedPath(tmpl) \in DOMAIN files

MaxDecls == 2
MaxOverrideDecls == 1

\* a plausible slip: Jwt is evaluated before Oauth2
PluginOrderJwtFirst ==
    <<"CorrelationId", "TcpLog", "Jwt", "Oauth2", "JwtValidator",
      "JsonCookiesToHeaders", "JsonCookiesCsrf", "RequestTransformer">>

\* the fixed sequence in which the plugin kinds are evaluated
PluginOrder ==
    <<"CorrelationId", "TcpLog", "Oauth2", "Jwt", "JwtValidator",
      "JsonCookiesToHeaders", "JsonCookiesCsrf", "RequestTransformer">>

PluginKinds == {PluginOrder[i] : i \in 1..Len(PluginOrder)}

\* PluginBase::Removed and PluginBase::Present(attributes)
Removed == [tag |-> "Removed", attrs |-> ""]

Present(attributes) == [tag |-> "Present", attrs |-> attributes]

PluginAttrs == {"a:1"}

PluginStates == {Removed} \cup {Present(x) : x \in PluginAttrs}

PluginDecls == [kind : PluginKinds, state : PluginStates]

\* the declarations of one layer, in the order written, one per kind at most
DeclLayers(n) ==
    {ds \in UNION {[1..m -> PluginDecls] : m \in 0..n} :
        \A i, j \in 1..Len(ds) : i # j => ds[i].kind # ds[j].kind}

Services == {"fake-ask", "fake-storage"}

\* a layer as deserialized: per kind, unspecified (None) or the declared state
Deserialize(decls) ==
    [k \in PluginKinds |->
        IF \E i \in 1..Len(decls) : decls[i].kind = k
        THEN Some((CHOOSE i \in 1..Len(decls) : decls[i].kind = k))
        ELSE None]

DeclaredState(decls, k) ==
    LET o == Deserialize(decls)[k] IN
    IF o = None THEN None ELSE Some(decls[o[1]].state)

\* the tri-state fields of a layer
PluginFields(decls) == [k \in PluginKinds |-> DeclaredState(decls, k)]

\* merge of the tri-state plugin fields of two layers
MergePlugins(self, other) ==
    [k \in PluginKinds |-> MergeOption(self[k], other[k])]

NoHeaders == {}

\* a plausible slip: the header is injected into "add" only
UpstreamHeaderTransformAddOnly(service, explicit) ==
    [kind |-> "RequestTransformer", tag |-> "Present", attrs |-> "",
     enabled |-> TRUE,
     add |-> {"Upstream-Service: " \o service},
     replace |-> NoHeaders,
     remove |-> NoHeaders,
     append |-> IF IsSome(explicit) /\ explicit[1].tag = "Present"
                THEN {explicit[1].attrs} ELSE NoHeaders,
     rename |-> NoHeaders]

\* the header transformation entry of a service (assert_upstream_header_transform)
UpstreamHeaderTransform(service, explicit) ==
    [kind |-> "RequestTransformer", tag |-> "Present", attrs |-> "",
     enabled |-> TRUE,
     add |-> {"Upstream-Service: " \o service},
     replace |-> {"Upstream-Service: " \o service},
     remove |-> NoHeaders,
     append |-> IF IsSome(explicit) /\ explicit[1].tag = "Present"
                THEN {explicit[1].attrs} ELSE NoHeaders,
     rename |-> NoHeaders]

\* the entry of any other kind: Present(attributes) or Removed
PluginEntry(k, state) ==
    [kind |-> k, tag |-> state.tag, attrs |-> state.attrs,
     enabled |-> (state.tag = "Present"),
     add |-> NoHeaders, replace |-> NoHeaders, remove |-> NoHeaders,
     append |-> NoHeaders, rename |-> NoHeaders]

\* at least one plugin of the route is configured (Present)
AnyPluginConfigured(fields) ==
    \E k \in PluginKinds : IsSome(fields[k]) /\ fields[k][1].tag = "Present"

\* the plugin list of the API: the kinds of order[i..] in turn, unspecified
\* kinds skipped, the header transformation injected
RECURSIVE PluginList(_, _, _, _)
PluginList(service, fields, order, i) ==
    IF i > Len(order) THEN <<>>
    ELSE LET k == order[i]
             rest == PluginList(service, fields, order, i + 1)
         IN IF k = "RequestTransformer"
            THEN IF AnyPluginConfigured(fields)
                 THEN <<UpstreamHeaderTransform(service, fields[k])>> \o rest
                 ELSE rest
            ELSE IF IsSome(fields[k])
                 THEN <<PluginEntry(k, fields[k][1])>> \o rest
                 ELSE rest

kong_plugins(service, fields) == PluginList(service, fields, PluginOrder, 1)

InitKong ==
    /\ pc = "layers"
    /\ svc \in Services
    /\ baseDecls \in DeclLayers(MaxDecls)
    /\ overDecls = <<>>
    /\ kong = EmptyMap
    /\ api = <<>>
    /\ FilesIdle /\ StatusIdle /\ LoginIdle
    /\ a = DefaultDefaults /\ b = DefaultDefaults /\ c = DefaultDefaults
    /\ merged = DefaultDefaults
    /\ left = DefaultDefaults /\ right = DefaultDefaults
    /\ global = DefaultDefaults /\ regional = DefaultDefaults
    /\ manifest = DefaultSource /\ envfile = DefaultOverrides
    /\ source = DefaultSource
    /\ conf = DefaultConfig /\ region = "" /\ result = NoResult

\* the override layer is merged over the base layer
MergeKongLayers ==
    /\ pc = "layers"
    /\ \E o \in DeclLayers(MaxOverrideDecls) :
         /\ overDecls' = o
         /\ kong' = MergePlugins(PluginFields(baseDecls), PluginFields(o))
    /\ pc' = "kong"
    /\ UNCHANGED <<a, b, c, merged, left, right, global, regional, manifest,
                   envfile, source, conf, region, result, svc, baseDecls, api>>
    /\ UNCHANGED <<fileVars, statusVars, loginVars>>

\* generate_kong_output for the service
DeriveApi ==
    /\ pc = "kong"
    /\ api' = kong_plugins(svc, kong)
    /\ pc' = "derived"
    /\ UNCHANGED <<a, b, c, merged, left, right, global, regional, manifest,
                   envfile, source, conf, region, result, svc, baseDecls,
                   overDecls, kong>>
    /\ UNCHANGED <<fileVars, statusVars, loginVars>>

NextKong == MergeKongLayers \/ DeriveApi

SpecKong == InitKong /\ [][NextKong]_vars

\* the entries of the derived API for one kind
EntriesOf(k) == {i \in 1..Len(api) : api[i].kind = k}

\* a kind is Present in the higher layer that mentions it
EffectivePresent(k) ==
    LET base == DeclaredState(baseDecls, k)
        over == DeclaredState(overDecls, k)
    IN IF IsSome(over) THEN over[1].tag = "Present"
       ELSE IsSome(base) /\ base[1].tag = "Present"

SomePluginPresent == \E k \in PluginKinds : EffectivePresent(k)

\* the tri-state rule for one kind, read off the two layers and the output
TriStateHolds(k) ==
    LET base == DeclaredState(baseDecls, k)
        over == DeclaredState(overDecls, k)
    IN /\ (IsSome(base) /\ base[1].tag = "Present" /\ over = Some(Removed) =>
             /\ Cardinality(EntriesOf(k)) = 1
             /\ \A i \in EntriesOf(k) : api[i].tag = "Removed")
       /\ (over = None /\ IsSome(base) =>
             /\ Cardinality(EntriesOf(k)) = 1
             /\ \A i \in EntriesOf(k) :
                  api[i].tag = base[1].tag /\ api[i].attrs = base[1].attrs)
       /\ (over = None /\ base = None => EntriesOf(k) = {})

Rank(k) ==
    CASE k = "CorrelationId" -> 1
      [] k = "TcpLog" -> 2
      [] k = "Oauth2" -> 3
      [] k = "Jwt" -> 4
      [] k = "JwtValidator" -> 5
      [] k = "JsonCookiesToHeaders" -> 6
      [] k = "JsonCookiesCsrf" -> 7
      [] k = "RequestTransformer" -> 8

\* C12: the entries of the derived API follow the fixed sequence, whatever
\* the order of the declarations in the layers.
C12_FixedPluginOrder ==
    pc = "derived" =>
        \A i, j \in 1..Len(api) : i < j => Rank(api[i].kind) < Rank(api[j].kind)

\* the base declares Jwt before Oauth2 and the output has Oauth2 first
C12_Witness ==
    /\ pc = "derived"
    /\ Len(baseDecls) = 2
    /\ baseDecls[1].kind = "Jwt" /\ baseDecls[2].kind = "Oauth2"
    /\ Len(overDecls) = 1 /\ overDecls[1].kind = "CorrelationId"
    /\ Len(api) = 4
    /\ api[1].kind = "CorrelationId" /\ api[2].kind = "Oauth2"
    /\ api[3].kind = "Jwt" /\ api[4].kind = "RequestTransformer"

\* C13: with a plugin configured, the header transformation is Present and
\* enabled, "add" and "replace" hold exactly Upstream-Service: <svc>, and
\* remove, append and rename are empty unless configured.
C13_UpstreamHeader ==
    (pc = "derived" /\ SomePluginPresent) =>
        /\ Cardinality(EntriesOf("RequestTransformer")) = 1
        /\ \A i \in EntriesOf("RequestTransformer") :
             /\ api[i].tag = "Present" /\ api[i].enabled
             /\ api[i].add = {"Upstream-Service: " \o svc}
             /\ api[i].replace = {"Upstream-Service: " \o svc}
             /\ (\A d \in {baseDecls, overDecls} :
                    DeclaredState(d, "RequestTransformer") \in {None, Some(Removed)})
                  => (api[i].remove = {} /\ api[i].append = {} /\ api[i].rename = {})

\* fake-storage with only Jwt configured
C13_Witness ==
    /\ pc = "derived"
    /\ svc = "fake-storage"
    /\ Len(baseDecls) = 1 /\ baseDecls[1].kind = "Jwt" /\ overDecls = <<>>
    /\ Len(api) = 2
    /\ api[2].kind = "RequestTransformer" /\ api[2].tag = "Present"
    /\ api[2].add = {"Upstream-Service: fake-storage"}
    /\ api[2].replace = {"Upstream-Service: fake-storage"}
    /\ api[2].remove = {} /\ api[2].append = {} /\ api[2].rename = {}

\* ------------------------------------------------------------------------
\* SpecStatus: status updates of one shipcatmanifest, sent as merge patches
\* ------------------------------------------------------------------------
\* most status updates in one behaviour
MaxUpdates == 3

Appliers == {"alice", "jenkins"}
FailureKinds == {"ApplyFailure"}
FailureMessages == {"timed out", "bad image"}
UpgradeReasons == {"version change"}
RolloutVersions == {"1.0.0", "1.1.0"}

\* A JSON object is a function from its keys; a present value v is Some(v),
\* and in a patch None stands for null.

\* Condition::ok: applier, timestamp and the success flag
ConditionOk(applier, now) ==
    [status |-> Some(TRUE), lastTransitionTime |-> Some(now), source |-> Some(applier)]

\* Condition::bad: the same with the machine reason and the message
ConditionBad(applier, now, err, reason) ==
    [status |-> Some(FALSE), lastTransitionTime |-> Some(now), source |-> Some(applier),
     reason |-> Some(err), message |-> Some(reason)]

\* ShipKube::update_generate_true
update_generate_true(applier, now) ==
    [status |->
       [conditions |-> [generated |-> ConditionOk(applier, now)],
        summary |-> [lastSuccessfulGenerate |-> Some(now),
                     lastAction |-> Some("Generate")]]]

\* ShipKube::update_generate_false
update_generate_false(applier, now, err, reason) ==
    [status |->
       [conditions |-> [generated |-> ConditionBad(applier, now, err, reason)],
        summary |-> [lastFailureReason |-> Some(reason),
                     lastAction |-> Some("Generate")]]]

\* a plausible slip: a successful apply clears the failure reason, as a
\* successful rollout does
update_apply_trueClearsFailure(applier, now, ureason) ==
    [status |->
       [conditions |-> [applied |-> ConditionOk(applier, now)],
        summary |-> [lastApply |-> Some(now),
                     lastSuccessfulApply |-> Some(now),
                     lastApplyReason |-> Some(ureason),
                     lastFailureReason |-> None,
                     lastAction |-> Some("Apply")]]]

\* ShipKube::update_apply_true
update_apply_true(applier, now, ureason) ==
    [status |->
       [conditions |-> [applied |-> ConditionOk(applier, now)],
        summary |-> [lastApply |-> Some(now),
                     lastSuccessfulApply |-> Some(now),
                     lastApplyReason |-> Some(ureason),
                     lastAction |-> Some("Apply")]]]

\* ShipKube::update_apply_false
update_apply_false(applier, now, ureason, err, reason) ==
    [status |->
       [conditions |-> [applied |-> ConditionBad(applier, now, err, reason)],
        summary |-> [lastApply |-> Some(now),
                     lastFailureReason |-> Some(reason),
                     lastApplyReason |-> Some(ureason),
                     lastAction |-> Some("Apply")]]]

\* a plausible slip: the block copied from update_apply_false keeps its key
update_rollout_falseApplied(applier, now, err, reason) ==
    [status |->
       [conditions |-> [applied |-> ConditionBad(applier, now, err, reason)],
        summary |-> [lastRollout |-> Some(now),
                     lastFailureReason |-> Some(reason),
                     lastAction |-> Some("Rollout")]]]

\* ShipKube::update_rollout_false
update_rollout_false(applier, now, err, reason) ==
    [status |->
       [conditions |-> [rolledout |-> ConditionBad(applier, now, err, reason)],
        summary |-> [lastRollout |-> Some(now),
                     lastFailureReason |-> Some(reason),
                     lastAction |-> Some("Rollout")]]]

\* a plausible slip: the version is left out of the summary
update_rollout_trueNoVersion(applier, now, version) ==
    [status |->
       [conditions |-> [rolledout |-> ConditionOk(applier, now)],
        summary |-> [lastRollout |-> Some(now),
                     lastSuccessfulRollout |-> Some(now),
                     lastFailureReason |-> None,
                     lastAction |-> Some("Rollout")]]]

\* ShipKube::update_rollout_true
update_rollout_true(applier, now, version) ==
    [status |->
       [conditions |-> [rolledout |-> ConditionOk(applier, now)],
        summary |-> [lastRollout |-> Some(now),
                     lastSuccessfulRollout |-> Some(now),
                     lastFailureReason |-> None,
                     lastAction |-> Some("Rollout"),
                     lastSuccessfulRolloutVersion |-> Some(version)]]]

\* JSON merge patch of an object of plain values: null deletes the key, a
\* value replaces it, a key the patch does not have is kept
MergePatchObject(target, p) ==
    LET deleted == {k \in DOMAIN p : p[k] = None}
        keys == ((DOMAIN target) \cup (DOMAIN p)) \ deleted
    IN [k \in keys |-> IF k \in DOMAIN p THEN p[k] ELSE target[k]]

\* JSON merge patch of an object of objects: members are patched in turn
MergePatchNested(target, p) ==
    [k \in (DOMAIN target) \cup (DOMAIN p) |->
        IF k \in DOMAIN p
        THEN MergePatchObject(IF k \in DOMAIN target THEN target[k] ELSE EmptyMap, p[k])
        ELSE target[k]]

\* ShipKube::patch: patch_status of the stored object with the document
patch_status(stored, data) ==
    [conditions |-> MergePatchNested(stored.conditions, data.status.conditions),
     summary    |-> MergePatchObject(stored.summary, data.status.summary)]

\* show: the headline printed for the requested version
show(stat, ver) ==
    IF "lastSuccessfulRolloutVersion" \in DOMAIN stat.summary
    THEN LET successver == stat.summary["lastSuccessfulRolloutVersion"][1] IN
         IF successver # ver
         THEN [text |-> "is requesting, but last successful deploy used",
               requested |-> ver, successver |-> Some(successver)]
         ELSE [text |-> "is running", requested |-> ver, successver |-> Some(successver)]
    ELSE [text |-> "is requesting", requested |-> ver, successver |-> None]

InitStatus ==
    /\ pc = "status"
    /\ status = EmptyStatus /\ call = NoCall /\ patch = EmptyStatus
    /\ clock = 0 /\ rolled = None /\ failed = None /\ shown = NoShown
    /\ FilesIdle /\ KongIdle /\ LoginIdle
    /\ a = DefaultDefaults /\ b = DefaultDefaults /\ c = DefaultDefaults
    /\ merged = DefaultDefaults
    /\ left = DefaultDefaults /\ right = DefaultDefaults
    /\ global = DefaultDefaults /\ regional = DefaultDefaults
    /\ manifest = DefaultSource /\ envfile = DefaultOverrides
    /\ source = DefaultSource
    /\ conf = DefaultConfig /\ region = "" /\ result = NoResult

\* self.patch(&data): the document is sent and merged into the stored status
Send(data, op, applier, err, reason, ureason, version) ==
    /\ pc = "status"
    /\ clock < MaxUpdates
    /\ clock' = clock + 1
    /\ patch' = data
    /\ status' = patch_status(status, data)
    /\ call' = [op |-> op, applier |-> applier, err |-> err, reason |-> reason,
                ureason |-> ureason, version |-> version]
    /\ shown' = NoShown
    /\ UNCHANGED <<pc, a, b, c, merged, left, right, global, regional, manifest,
                   envfile, source, conf, region, result>>
    /\ UNCHANGED <<fileVars, kongVars, loginVars>>

UpdateGenerateTrue ==
    \E ap \in Appliers :
       /\ Send(update_generate_true(ap, clock + 1), "update_generate_true",
               ap, "", "", "", "")
       /\ UNCHANGED <<rolled, failed>>

UpdateGenerateFalse ==
    \E ap \in Appliers, err \in FailureKinds, reason \in FailureMessages :
       /\ Send(update_generate_false(ap, clock + 1, err, reason),
               "update_generate_false", ap, err, reason, "", "")
       /\ UNCHANGED rolled
       /\ failed' = Some(reason)

UpdateApplyTrue ==
    \E ap \in Appliers, ureason \in UpgradeReasons :
       /\ Send(update_apply_true(ap, clock + 1, ureason), "update_apply_true",
               ap, "", "", ureason, "")
       /\ UNCHANGED <<rolled, failed>>

UpdateApplyFalse ==
    \E ap \in Appliers, ureason \in UpgradeReasons, err \in FailureKinds,
       reason \in FailureMessages :
       /\ Send(update_apply_false(ap, clock + 1, ureason, err, reason),
               "update_apply_false", ap, err, reason, ureason, "")
       /\ UNCHANGED rolled
       /\ failed' = Some(reason)

UpdateRolloutFalse ==
    \E ap \in Appliers, err \in FailureKinds, reason \in FailureMessages :
       /\ Send(update_rollout_false(ap, clock + 1, err, reason),
               "update_rollout_false", ap, err, reason, "", "")
       /\ UNCHANGED rolled
       /\ failed' = Some(reason)

UpdateRolloutTrue ==
    \E ap \in Appliers, version \in RolloutVersions :
       /\ Send(update_rollout_true(ap, clock + 1, version), "update_rollout_true",
               ap, "", "", "", version)
       /\ rolled' = Some(version)
       /\ failed' = None

\* shipcat status: the stored object is read and the headline printed
Show ==
    /\ pc = "status"
    /\ shown = NoShown
    /\ \E ver \in RolloutVersions : shown' = show(status, ver)
    /\ UNCHANGED <<pc, a, b, c, merged, left, right, global, regional, manifest,
                   envfile, source, conf, region, result>>
    /\ UNCHANGED <<status, call, patch, clock, rolled, failed>>
    /\ UNCHANGED <<fileVars, kongVars, loginVars>>

NextStatus ==
    \/ UpdateGenerateTrue \/ UpdateGenerateFalse
    \/ UpdateApplyTrue \/ UpdateApplyFalse
    \/ UpdateRolloutFalse \/ UpdateRolloutTrue
    \/ Show

SpecStatus == InitStatus /\ [][NextStatus]_vars

\* the condition key of the action of an update
ConditionKey(op) ==
    CASE op \in {"update_generate_true", "update_generate_false"} -> "generated"
      [] op \in {"update_apply_true", "update_apply_false"} -> "applied"
      [] op \in {"update_rollout_true", "update_rollout_false"} -> "rolledout"

\* C16: the patch of an update sets one condition, that of its own action:
\* applier, timestamp and status true on success; the same with reason and
\* message and status false on failure.
C16_OneConditionPerUpdate ==
    (pc = "status" /\ call # NoCall) =>
        LET conds == patch.status.conditions
            cond == conds[ConditionKey(call.op)]
        IN /\ DOMAIN conds = {ConditionKey(call.op)}
           /\ cond.source = Some(call.applier)
           /\ cond.lastTransitionTime = Some(clock)
           /\ IF call.op \in {"update_generate_true", "update_apply_true",
                            "update_rollout_true"}
              THEN /\ DOMAIN cond = {"status", "lastTransitionTime", "source"}
                   /\ cond.status = Some(TRUE)
              ELSE /\ DOMAIN cond = {"status", "lastTransitionTime", "source",
                                     "reason", "message"}
                   /\ cond.status = Some(FALSE)
                   /\ cond.reason = Some(call.err)
                   /\ cond.message = Some(call.reason)

\* a failed rollout by jenkins after two other updates
C16_Witness ==
    /\ pc = "status" /\ clock = 3
    /\ call.op = "update_rollout_false" /\ call.applier = "jenkins"
    /\ call.reason = "bad image"
    /\ DOMAIN patch.status.conditions = {"rolledout"}
    /\ patch.status.conditions["rolledout"].message = Some("bad image")
    /\ patch.status.conditions["rolledout"].status = Some(FALSE)
    /\ DOMAIN status.conditions = {"generated", "applied", "rolledout"}

\* C17: summary.lastSuccessfulRolloutVersion is the version of the most
\* recent update_rollout_true and absent before the first; show prints
\* "is running" exactly when the requested version equals it, and names the
\* recorded version when it differs.
C17_LastSuccessfulRolloutVersion ==
    pc = "status" =>
        /\ (rolled = None <=>
              "lastSuccessfulRolloutVersion" \notin DOMAIN status.summary)
        /\ (IsSome(rolled) =>
              status.summary["lastSuccessfulRolloutVersion"] = rolled)
        /\ (shown # NoShown =>
              /\ (shown.text = "is running" <=> rolled = Some(shown.requested))
              /\ (IsSome(rolled) /\ rolled # Some(shown.requested) =>
                    /\ shown.text = "is requesting, but last successful deploy used"
                    /\ shown.successver = rolled)
              /\ (rolled = None => shown.text = "is requesting"))

\* 1.0.0 rolled out, then a failed apply and a failed rollout, then 1.1.0
\* is requested
C17_Witness ==
    /\ pc = "status" /\ clock = 3
    /\ rolled = Some("1.0.0")
    /\ call.op = "update_rollout_false"
    /\ status.summary["lastAction"] = Some("Rollout")
    /\ "applied" \in DOMAIN status.conditions
    /\ status.conditions["applied"].status = Some(FALSE)
    /\ status.summary["lastSuccessfulRolloutVersion"] = Some("1.0.0")
    /\ shown.requested = "1.1.0"
    /\ shown.text = "is requesting, but last successful deploy used"

\* C18: after an update for action X the stored condition of X is the one
\* the update wrote, and the conditions of the other actions are unchanged.
C18_ConditionIsLatestWrite ==
    [][clock' = clock + 1 =>
          LET x == ConditionKey(call'.op) IN
          /\ status'.conditions[x] = patch'.status.conditions[x]
          /\ DOMAIN status'.conditions = (DOMAIN status.conditions) \cup {x}
          /\ \A y \in (DOMAIN status.conditions) \ {x} :
                status'.conditions[y] = status.conditions[y]]_vars

\* ------------------------------------------------------------------------
\* SpecLogin: login to a region through its owning cluster
\* ------------------------------------------------------------------------
\* most lines of `tsh status` output
MaxLines == 6

\* the owning cluster found for the region, if any
Clusters ==
    {None,
     Some([teleport |-> None, clustername |-> None]),
     Some([teleport |-> Some("tp.example.com"), clustername |-> None]),
     Some([teleport |-> Some("tp.example.com"), clustername |-> Some("kops-uk")])}

LoginRegions ==
    {[name |-> "dev-uk", cluster |-> "kops-uk", namespace |-> "apps"],
     [name |-> "minikube", cluster |-> "minikube", namespace |-> "apps"]}

\* `tsh status` outputs: per line, whether it contains the teleport url and
\* whether it contains EXPIRED
TshOutputs ==
    UNION {{[i \in 1..n |-> [url |-> i \in {u1, u2}, expired |-> i = e]] :
               u1 \in 0..n, u2 \in 0..n, e \in 0..n} : n \in 0..MaxLines}

\* lines.iter().position(|l| l.contains(url)), counted from 1; 0 if none
Position(lines) ==
    IF \E i \in 1..Len(lines) : lines[i].url
    THEN CHOOSE i \in 1..Len(lines) :
            lines[i].url /\ \A j \in 1..(i - 1) : ~lines[j].url
    ELSE 0

\* need_teleport_login on the lines of `tsh status`: lines[idx + 5] panics
\* when the output ends before that line
need_teleport_login(lines) ==
    LET idx == Position(lines) IN
    IF idx = 0 THEN [panic |-> FALSE, value |-> TRUE]
    ELSE IF idx + 5 <= Len(lines)
         THEN [panic |-> FALSE, value |-> lines[idx + 5].expired]
         ELSE [panic |-> TRUE, value |-> FALSE]

\* a plausible slip: force no longer triggers a fresh login
ShouldLoginIgnoreForce(needs_login, f) == needs_login

\* if needs_login || force
ShouldLogin(needs_login, f) == needs_login \/ f

\* the context set and used for a teleport cluster: &region.name
TeleportContext(r) == r.name

\* the context used for a cluster without teleport: &region.cluster
ReusedContext(r) == r.cluster

\* arguments of kubectl::set_context
ContextArgs(r, cl) ==
    <<r.namespace,
      IF IsSome(cl.clustername) THEN cl.clustername[1] ELSE cl.teleport[1]>>

Ran(cmd, arg, opts, ok) == [cmd |-> cmd, arg |-> arg, opts |-> opts, ok |-> ok]

InitLogin ==
    /\ pc = "login"
    /\ cluster \in Clusters
    /\ loginRegion \in LoginRegions
    /\ force \in BOOLEAN
    /\ tshOut = <<>> /\ needsLogin = FALSE /\ cmds = <<>> /\ outcome = ""
    /\ FilesIdle /\ KongIdle /\ StatusIdle
    /\ a = DefaultDefaults /\ b = DefaultDefaults /\ c = DefaultDefaults
    /\ merged = DefaultDefaults
    /\ left = DefaultDefaults /\ right = DefaultDefaults
    /\ global = DefaultDefaults /\ regional = DefaultDefaults
    /\ manifest = DefaultSource /\ envfile = DefaultOverrides
    /\ source = DefaultSource
    /\ conf = DefaultConfig /\ region = "" /\ result = NoResult

LoginFrame ==
    /\ UNCHANGED <<a, b, c, merged, left, right, global, regional, manifest,
                   envfile, source, conf, region, result>>
    /\ UNCHANGED <<cluster, loginRegion, force>>
    /\ UNCHANGED <<fileVars, kongVars, statusVars>>

\* login: find the owning cluster and pick the branch
Login ==
    /\ pc = "login"
    /\ IF cluster = None
       THEN pc' = "done" /\ outcome' = "err"
       ELSE IF IsSome(cluster[1].teleport)
            THEN pc' = "ensure_teleport" /\ UNCHANGED outcome
            ELSE pc' = "use_cluster_context" /\ UNCHANGED outcome
    /\ UNCHANGED <<tshOut, needsLogin, cmds>>
    /\ LoginFrame

\* ensure_teleport()?: `which tsh`
EnsureTeleport ==
    /\ pc = "ensure_teleport"
    /\ \E found \in BOOLEAN :
          /\ cmds' = Append(cmds, Ran("which", "tsh", <<>>, found))
          /\ IF found
             THEN pc' = "need_teleport_login" /\ UNCHANGED outcome
             ELSE pc' = "done" /\ outcome' = "err"
    /\ UNCHANGED <<tshOut, needsLogin>>
    /\ LoginFrame

\* need_teleport_login(&teleport)?: `tsh status`
NeedTeleportLogin ==
    /\ pc = "need_teleport_login"
    /\ \E ran \in BOOLEAN, lines \in TshOutputs :
          /\ cmds' = Append(cmds, Ran("tsh", "status", <<>>, ran))
          /\ IF ~ran
             THEN /\ pc' = "done" /\ outcome' = "err"
                  /\ UNCHANGED <<tshOut, needsLogin>>
             ELSE /\ tshOut' = lines
                  /\ IF need_teleport_login(lines).panic
                     THEN pc' = "done" /\ outcome' = "panic" /\ UNCHANGED needsLogin
                     ELSE /\ pc' = "tsh_login" /\ UNCHANGED outcome
                          /\ needsLogin' = need_teleport_login(lines).value
    /\ LoginFrame

\* `tsh login` when needed or forced, else the active session is reused
TshLogin ==
    /\ pc = "tsh_login"
    /\ IF ShouldLogin(needsLogin, force)
       THEN \E ok \in BOOLEAN :
               /\ cmds' = Append(cmds, Ran("tsh", "login", <<>>, ok))
               /\ IF ok
                  THEN pc' = "set_context" /\ UNCHANGED outcome
                  ELSE pc' = "done" /\ outcome' = "err"
       ELSE pc' = "set_context" /\ UNCHANGED <<cmds, outcome>>
    /\ UNCHANGED <<tshOut, needsLogin>>
    /\ LoginFrame

\* kubectl::set_context(&region.name, args).await?
SetContext ==
    /\ pc = "set_context"
    /\ \E ok \in BOOLEAN :
          /\ cmds' = Append(cmds, Ran("set_context", TeleportContext(loginRegion),
                                      ContextArgs(loginRegion, cluster[1]), ok))
          /\ IF ok
             THEN pc' = "use_context" /\ UNCHANGED outcome
             ELSE pc' = "done" /\ outcome' = "err"
    /\ UNCHANGED <<tshOut, needsLogin>>
    /\ LoginFrame

\* kubectl::use_context(&region.name).await?
UseContext ==
    /\ pc = "use_context"
    /\ \E ok \in BOOLEAN :
          /\ cmds' = Append(cmds, Ran("use_context", TeleportContext(loginRegion),
                                      <<>>, ok))
          /\ pc' = "done"
          /\ outcome' = IF ok THEN "ok" ELSE "err"
    /\ UNCHANGED <<tshOut, needsLogin>>
    /\ LoginFrame

\* kubectl::use_context(&region.cluster).await? for a cluster without teleport
UseClusterContext ==
    /\ pc = "use_cluster_context"
    /\ \E ok \in BOOLEAN :
          /\ cmds' = Append(cmds, Ran("use_context", ReusedContext(loginRegion),
                                      <<>>, ok))
          /\ pc' = "done"
          /\ outcome' = IF ok THEN "ok" ELSE "err"
    /\ UNCHANGED <<tshOut, needsLogin>>
    /\ LoginFrame

NextLogin ==
    \/ Login \/ EnsureTeleport \/ NeedTeleportLogin \/ TshLogin
    \/ SetContext \/ UseContext \/ UseClusterContext

SpecLogin == InitLogin /\ [][NextLogin]_vars

\* C19: without a teleport url login runs no tsh and creates no context, it
\* only switches to the context named region.name; without an owning cluster
\* it fails and runs no command.
C19_NonTeleportLogin ==
    (pc = "done" /\ outcome # "") =>
        /\ (cluster = None => cmds = <<>> /\ outcome = "err")
        /\ (IsSome(cluster) /\ cluster[1].teleport = None =>
              /\ Len(cmds) = 1
              /\ cmds[1].cmd = "use_context"
              /\ cmds[1].arg = loginRegion.name)

\* C20: for a teleport cluster the commands run in the order ensure session,
\* set_context(region.name), use_context(region.name); tsh login runs iff the
\* session is missing/expired or force is set; set_context runs only with an
\* active session; use_context only after set_context succeeded; a failing
\* step is the last step and login ends with an error.
C20_LoginStepOrder ==
    LET names == [i \in 1..Len(cmds) |-> <<cmds[i].cmd, cmds[i].arg>>]
        ensure == <<"which", "tsh">>
        tshStatus == <<"tsh", "status">>
        tshLogin == <<"tsh", "login">>
        setCtx == <<"set_context", loginRegion.name>>
        useCtx == <<"use_context", loginRegion.name>>
        HasRun(name) == \E i \in 1..Len(cmds) : names[i] = name
        IsPrefix(t) == Len(names) <= Len(t) /\ \A i \in 1..Len(names) : names[i] = t[i]
    IN
    (IsSome(cluster) /\ IsSome(cluster[1].teleport)) =>
        /\ \/ IsPrefix(<<ensure, tshStatus, tshLogin, setCtx, useCtx>>)
           \/ IsPrefix(<<ensure, tshStatus, setCtx, useCtx>>)
        /\ (HasRun(tshLogin) => needsLogin \/ force)
        /\ (pc \in {"set_context", "use_context"} \/ HasRun(setCtx) =>
              /\ HasRun(tshLogin) <=> (needsLogin \/ force)
              /\ \A i \in 1..Len(cmds) :
                    names[i] \in {ensure, tshStatus, tshLogin} => cmds[i].ok)
        /\ (HasRun(useCtx) =>
              \E i \in 1..Len(cmds) : names[i] = setCtx /\ cmds[i].ok
                                      /\ i + 1 = Len(cmds))
        /\ \A i \in 1..Len(cmds) :
              ~cmds[i].ok => i = Len(cmds) /\ pc = "done" /\ outcome = "err"
        /\ (outcome = "ok" =>
              pc = "done" /\ HasRun(useCtx) /\ cmds[Len(cmds)].ok)

\* a forced login with a valid session: tsh login, set_context, use_context
C20_Witness ==
    /\ IsSome(cluster) /\ IsSome(cluster[1].teleport)
    /\ pc = "done" /\ outcome = "ok"
    /\ force /\ ~needsLogin
    /\ Position(tshOut) = 1 /\ Len(tshOut) = 6
    /\ Len(cmds) = 5
    /\ cmds[3].cmd = "tsh" /\ cmds[3].arg = "login" /\ cmds[3].ok
    /\ cmds[4].cmd = "set_context" /\ cmds[4].arg = "dev-uk"
    /\ cmds[5].cmd = "use_context" /\ cmds[5].arg = "dev-uk"
    /\ loginRegion.name = "dev-uk"

\* C21: summary.lastFailureReason is the reason of the most recent failed
\* update of any action since the most recent successful rollout, and absent
\* if there is none; a successful generate or apply after a failure leaves the
\* stale reason in place while lastAction names the successful action.
C21_LastFailureReason ==
    pc = "status" =>
        /\ (failed = None <=> "lastFailureReason" \notin DOMAIN status.summary)
        /\ (IsSome(failed) => status.summary["lastFailureReason"] = failed)
        /\ (IsSome(failed) /\ call.op = "update_generate_true" =>
              /\ "lastFailureReason" \in DOMAIN status.summary
              /\ status.summary["lastAction"] = Some("Generate"))
        /\ (IsSome(failed) /\ call.op = "update_apply_true" =>
              /\ "lastFailureReason" \in DOMAIN status.summary
              /\ status.summary["lastAction"] = Some("Apply"))

\* a rollout succeeded, then an apply failed, then an apply succeeded: the
\* reason of the failed apply is still in the summary
C21_Witness ==
    /\ pc = "status" /\ clock = 3
    /\ IsSome(rolled)
    /\ call.op = "update_apply_true"
    /\ failed = Some("timed out")
    /\ "lastFailureReason" \in DOMAIN status.summary
    /\ status.summary["lastFailureReason"] = Some("timed out")
    /\ status.summary["lastAction"] = Some("Apply")
    /\ "applied" \in DOMAIN status.conditions
    /\ status.conditions["applied"].status = Some(TRUE)

\* C22: need_teleport_login returns a boolean for every `tsh status` output:
\* true when no line contains the url; otherwise the line five below the
\* first line containing it exists and the result is whether that line
\* contains EXPIRED.
C22_NeedTeleportLoginTotal ==
    (Len(cmds) >= 2 /\ cmds[2].cmd = "tsh" /\ cmds[2].arg = "status" /\ cmds[2].ok) =>
        LET idx == Position(tshOut) IN
        /\ outcome # "panic"
        /\ (idx = 0 => needsLogin)
        /\ (idx > 0 =>
              /\ idx + 5 <= Len(tshOut)
              /\ needsLogin = tshOut[idx + 5].expired)

====
